---- MODULE Spec2Model ----
(***************************************************************************)
(* A model of ordering.cpp: two worker threads race through a store/load   *)
(* transaction, a controller (main) resets the flags, releases the workers *)
(* through two begin semaphores, collects them through endSema and counts  *)
(* the passes in which both workers read 0.                                *)
(*                                                                         *)
(* Memory is modelled in two ways.  With storeBuffers = FALSE every store  *)
(* reaches memory in the step that executes it (sequential consistency).   *)
(* With storeBuffers = TRUE every thread owns a FIFO store buffer: a plain *)
(* store is appended to the buffer and reaches memory in a later Flush     *)
(* step, a plain load reads the newest buffered store of its own thread to *)
(* that cell and memory otherwise, and an atomic read-modify-write or an   *)
(* mfence completes only once the buffer of its thread is empty.           *)
(***************************************************************************)
EXTENDS Integers, Sequences, FiniteSets, TLC

\* Passes of main's loop that are explored.
MaxIter == 3
\* Threads of the stand-alone semaphore specification, and signals they post.
NSemThreads == 3
MaxSignals == 3

\* Values MersenneTwister::integer may return in the delay loop (% 8 decides).
DrawValues == {0, 8, 13, 2147483647}

Workers == {"thread1", "thread2"}
Threads == {"main"} \cup Workers
Cells == {"X", "Y", "r1", "r2"}
Semas == {"beginSema1", "beginSema2", "endSema"}
SemThreads == 1 .. NSemThreads

VARIABLES
    pc,            \* position of every thread
    semPc,         \* position of every thread inside sem_wait: load, cas, yield
    oldCount,      \* sem_wait's local of every thread
    sema,          \* the atomic counters
    mem,           \* X, Y, r1, r2 in memory
    sb,            \* store buffer of every thread (oldest first)
    reg,           \* the value a worker loaded and has yet to store in its result
    detected,      \* main's locals
    iterations,
    out,           \* the reports written to std::cout: <<detected, iterations>>
    USE_CPU_FENCE, \* the build flag
    storeBuffers,  \* the memory model
    \* history, not read by the program:
    nSignal,       \* per semaphore: fetch_add increments performed
    nWaitRet,      \* per semaphore: sem_wait calls that have returned
    ver,           \* per cell: the pass whose store memory holds
    nWrite,        \* per cell: stores that have reached memory
    endOrder,      \* the workers that signalled endSema in this pass, in order
    overtook,      \* per worker: its load ran with its own flag store buffered
    \* the delay generators (specifications SpecMT and SpecDraw):
    random,        \* per generator: m_buffer (cell k of the code is k + 1), m_index
    calls,         \* history, per generator: calls of integer() made so far
    drawn,         \* history, per generator: the values its owner has drawn
    random0        \* history, per generator: its state in the initial state

vars == <<pc, semPc, oldCount, sema, mem, sb, reg, detected, iterations, out,
          USE_CPU_FENCE, storeBuffers, nSignal, nWaitRet, ver, nWrite,
          endOrder, overtook, random, calls, drawn, random0>>

semVars == <<semPc, oldCount, sema, nSignal, nWaitRet>>
memVars == <<mem, sb, ver, nWrite>>
mainVars == <<detected, iterations, out>>
cfgVars == <<USE_CPU_FENCE, storeBuffers>>
genVars == <<random, calls, drawn, random0>>

X == mem.X
Y == mem.Y
r1 == mem.r1
r2 == mem.r2

beginSema(w) == IF w = "thread1" THEN "beginSema1" ELSE "beginSema2"
ownFlag(w) == IF w = "thread1" THEN "X" ELSE "Y"
otherFlag(w) == IF w = "thread1" THEN "Y" ELSE "X"
result(w) == IF w = "thread1" THEN "r1" ELSE "r2"
other(w) == IF w = "thread1" THEN "thread2" ELSE "thread1"

\* The pass a thread is in: main counts in iterations, a worker is in the
\* pass of the last begin signal it consumed.
pass(t) == IF t = "main" THEN iterations ELSE nWaitRet[beginSema(t)]

----------------------------------------------------------------------------
(* Memory *)

Pending(t, a) == {i \in 1 .. Len(sb[t]) : sb[t][i].a = a}

\* A plain load: store-to-load forwarding from the own buffer, else memory.
Read(t, a) ==
    IF Pending(t, a) # {}
    THEN sb[t][CHOOSE i \in Pending(t, a) : \A j \in Pending(t, a) : j <= i].v
    ELSE mem[a]

\* A store reaching memory.
WriteMem(a, v, it) ==
    /\ mem' = [mem EXCEPT ![a] = v]
    /\ ver' = [ver EXCEPT ![a] = it]
    /\ nWrite' = [nWrite EXCEPT ![a] = @ + 1]

\* A plain store executed by thread t.
Store(t, a, v) ==
    IF storeBuffers
    THEN /\ sb' = [sb EXCEPT ![t] = Append(@, [a |-> a, v |-> v, it |-> pass(t)])]
         /\ UNCHANGED <<mem, ver, nWrite>>
    ELSE /\ WriteMem(a, v, pass(t))
         /\ UNCHANGED sb

\* The oldest buffered store of thread t reaches memory.
Flush(t) ==
    /\ sb[t] # <<>>
    /\ WriteMem(Head(sb[t]).a, Head(sb[t]).v, Head(sb[t]).it)
    /\ sb' = [sb EXCEPT ![t] = Tail(@)]
    /\ UNCHANGED <<pc, semVars, reg, mainVars, cfgVars, genVars, endOrder,
                   overtook>>

----------------------------------------------------------------------------
(* The semaphore *)

\* Faulty variant of sem_signal: the increment does not wait for the earlier
\* stores of the thread (an ordering weaker than release).
sem_signal_Relaxed(t, s, next) ==
    /\ sema' = [sema EXCEPT ![s] = @ + 1]
    /\ nSignal' = [nSignal EXCEPT ![s] = @ + 1]
    /\ pc' = [pc EXCEPT ![t] = next]
    /\ UNCHANGED <<semPc, oldCount, nWaitRet>>

\* sema.fetch_add(1, memory_order_release): an atomic read-modify-write, which
\* takes effect on memory once the earlier stores of the thread have left its
\* buffer.
sem_signal(t, s, next) ==
    /\ sb[t] = <<>>
    /\ sema' = [sema EXCEPT ![s] = @ + 1]
    /\ nSignal' = [nSignal EXCEPT ![s] = @ + 1]
    /\ pc' = [pc EXCEPT ![t] = next]
    /\ UNCHANGED <<semPc, oldCount, nWaitRet>>

\* Faulty variant of sem_wait_load: the test is oldCount >= 0.
sem_wait_load_NonNegative(t, s) ==
    /\ semPc[t] = "load"
    /\ oldCount' = [oldCount EXCEPT ![t] = sema[s]]
    /\ semPc' = [semPc EXCEPT ![t] = IF sema[s] >= 0 THEN "cas" ELSE "yield"]
    /\ UNCHANGED <<pc, sema, nSignal, nWaitRet>>

\* oldCount = sema.load(memory_order_relaxed); the test oldCount > 0.
sem_wait_load(t, s) ==
    /\ semPc[t] = "load"
    /\ oldCount' = [oldCount EXCEPT ![t] = sema[s]]
    /\ semPc' = [semPc EXCEPT ![t] = IF sema[s] > 0 THEN "cas" ELSE "yield"]
    /\ UNCHANGED <<pc, sema, nSignal, nWaitRet>>

\* Faulty variant of sem_wait_cas: a plain store of oldCount - 1 in place of
\* the compare-exchange.
sem_wait_cas_NotAtomic(t, s, next) ==
    /\ semPc[t] = "cas"
    /\ sb[t] = <<>>
    /\ sema' = [sema EXCEPT ![s] = oldCount[t] - 1]
    /\ nWaitRet' = [nWaitRet EXCEPT ![s] = @ + 1]
    /\ pc' = [pc EXCEPT ![t] = next]
    /\ semPc' = [semPc EXCEPT ![t] = "load"]
    /\ oldCount' = [oldCount EXCEPT ![t] = 0]
    /\ UNCHANGED nSignal

\* Faulty variant of sem_wait_cas: the loop is left after the
\* compare-exchange whether or not it succeeded.
sem_wait_cas_ReturnsOnFailure(t, s, next) ==
    /\ semPc[t] = "cas"
    /\ sb[t] = <<>>
    /\ IF sema[s] = oldCount[t]
       THEN sema' = [sema EXCEPT ![s] = oldCount[t] - 1]
       ELSE UNCHANGED sema
    /\ nWaitRet' = [nWaitRet EXCEPT ![s] = @ + 1]
    /\ pc' = [pc EXCEPT ![t] = next]
    /\ semPc' = [semPc EXCEPT ![t] = "load"]
    /\ oldCount' = [oldCount EXCEPT ![t] = 0]
    /\ UNCHANGED nSignal

\* sema.compare_exchange_strong(oldCount, oldCount - 1, memory_order_acquire):
\* on success the count is decremented and sem_wait returns; on failure the
\* count is left alone and oldCount takes the value found.
sem_wait_cas(t, s, next) ==
    /\ semPc[t] = "cas"
    /\ sb[t] = <<>>
    /\ IF sema[s] = oldCount[t]
       THEN /\ sema' = [sema EXCEPT ![s] = oldCount[t] - 1]
            /\ nWaitRet' = [nWaitRet EXCEPT ![s] = @ + 1]
            /\ pc' = [pc EXCEPT ![t] = next]
            /\ semPc' = [semPc EXCEPT ![t] = "load"]
            /\ oldCount' = [oldCount EXCEPT ![t] = 0]
            /\ UNCHANGED nSignal
       ELSE /\ oldCount' = [oldCount EXCEPT ![t] = sema[s]]
            /\ semPc' = [semPc EXCEPT ![t] = "yield"]
            /\ UNCHANGED <<pc, sema, nSignal, nWaitRet>>

\* sched_yield(), then the next round of the loop.
sem_wait_yield(t) ==
    /\ semPc[t] = "yield"
    /\ semPc' = [semPc EXCEPT ![t] = "load"]
    /\ UNCHANGED <<pc, oldCount, sema, nSignal, nWaitRet>>

sem_wait(t, s, next) ==
    \/ sem_wait_load(t, s)
    \/ sem_wait_cas(t, s, next)
    \/ sem_wait_yield(t)

----------------------------------------------------------------------------
(* The workers: thread1Func (X, Y, r1) and thread2Func (Y, X, r2) *)

\* MersenneTwister random(seed), before the loop.
WorkerCtor(w) ==
    /\ pc[w] = "ctor"
    /\ pc' = [pc EXCEPT ![w] = "wait_begin"]
    /\ UNCHANGED <<semVars, memVars, reg, mainVars, cfgVars, genVars,
                   endOrder, overtook>>

\* Faulty variant of WorkerWaitBegin: the worker does not wait.
WorkerWaitBegin_NoWait(w) ==
    /\ pc[w] = "wait_begin"
    /\ pc' = [pc EXCEPT ![w] = "delay"]
    /\ UNCHANGED <<semVars, memVars, reg, mainVars, cfgVars, genVars,
                   endOrder, overtook>>

\* sem_wait(beginSema)
WorkerWaitBegin(w) ==
    /\ pc[w] = "wait_begin"
    /\ sem_wait(w, beginSema(w), "delay")
    /\ UNCHANGED <<memVars, reg, mainVars, cfgVars, genVars, endOrder,
                   overtook>>

\* while (random.integer() % 8 != 0) {}: one draw.
WorkerDelay(w) ==
    /\ pc[w] = "delay"
    /\ \E v \in DrawValues :
          pc' = [pc EXCEPT ![w] = IF v % 8 # 0 THEN "delay" ELSE "store"]
    /\ UNCHANGED <<semVars, memVars, reg, mainVars, cfgVars, genVars,
                   endOrder, overtook>>

\* Faulty variant of WorkerStore: the store of the flag is left out.
WorkerStore_Dropped(w) ==
    /\ pc[w] = "store"
    /\ pc' = [pc EXCEPT ![w] = "barrier"]
    /\ UNCHANGED <<semVars, memVars, reg, mainVars, cfgVars, genVars,
                   endOrder, overtook>>

\* X = 1 (thread2Func: Y = 1)
WorkerStore(w) ==
    /\ pc[w] = "store"
    /\ Store(w, ownFlag(w), 1)
    /\ pc' = [pc EXCEPT ![w] = "barrier"]
    /\ UNCHANGED <<semVars, reg, mainVars, cfgVars, genVars, endOrder,
                   overtook>>

\* Faulty variant of WorkerBarrier: the compiler barrier in both builds.
WorkerBarrier_CompilerOnly(w) ==
    /\ pc[w] = "barrier"
    /\ pc' = [pc EXCEPT ![w] = "load"]
    /\ UNCHANGED <<semVars, memVars, reg, mainVars, cfgVars, genVars,
                   endOrder, overtook>>

\* mfence when USE_CPU_FENCE, which completes once the buffer is empty;
\* otherwise the compiler barrier, which does nothing at run time.
WorkerBarrier(w) ==
    /\ pc[w] = "barrier"
    /\ USE_CPU_FENCE = 1 => sb[w] = <<>>
    /\ pc' = [pc EXCEPT ![w] = "load"]
    /\ UNCHANGED <<semVars, memVars, reg, mainVars, cfgVars, genVars,
                   endOrder, overtook>>

\* r1 = Y (thread2Func: r2 = X), the load of the flag.
WorkerLoad(w) ==
    /\ pc[w] = "load"
    /\ reg' = [reg EXCEPT ![w] = Read(w, otherFlag(w))]
    /\ overtook' = [overtook EXCEPT ![w] = Pending(w, ownFlag(w)) # {}]
    /\ pc' = [pc EXCEPT ![w] = "store_result"]
    /\ UNCHANGED <<semVars, memVars, mainVars, cfgVars, genVars, endOrder>>

\* Faulty variant of WorkerStoreResult: the value goes to the result cell of
\* the other worker.
WorkerStoreResult_WrongCell(w) ==
    /\ pc[w] = "store_result"
    /\ Store(w, result(other(w)), reg[w])
    /\ pc' = [pc EXCEPT ![w] = "signal_end"]
    /\ UNCHANGED <<semVars, reg, mainVars, cfgVars, genVars, endOrder,
                   overtook>>

\* r1 = Y (thread2Func: r2 = X), the store of the result.
WorkerStoreResult(w) ==
    /\ pc[w] = "store_result"
    /\ Store(w, result(w), reg[w])
    /\ pc' = [pc EXCEPT ![w] = "signal_end"]
    /\ UNCHANGED <<semVars, reg, mainVars, cfgVars, genVars, endOrder,
                   overtook>>

\* Faulty variant of WorkerSignalEnd: the loop continues at the delay,
\* past sem_wait(beginSema).
WorkerSignalEnd_SkipsWait(w) ==
    /\ pc[w] = "signal_end"
    /\ sem_signal(w, "endSema", "delay")
    /\ endOrder' = Append(endOrder, w)
    /\ UNCHANGED <<memVars, reg, mainVars, cfgVars, genVars, overtook>>

\* sem_signal(endSema), and back to the head of the loop.
WorkerSignalEnd(w) ==
    /\ pc[w] = "signal_end"
    /\ sem_signal(w, "endSema", "wait_begin")
    /\ endOrder' = Append(endOrder, w)
    /\ UNCHANGED <<memVars, reg, mainVars, cfgVars, genVars, overtook>>

Worker(w) ==
    \/ WorkerCtor(w)
    \/ WorkerWaitBegin(w)
    \/ WorkerDelay(w)
    \/ WorkerStore(w)
    \/ WorkerBarrier(w)
    \/ WorkerLoad(w)
    \/ WorkerStoreResult(w)
    \/ WorkerSignalEnd(w)

thread1Func == Worker("thread1")
thread2Func == Worker("thread2")

----------------------------------------------------------------------------
(* main *)

workerFrame == <<reg, endOrder, overtook>>

\* std::thread thread1(thread1Func)
MainSpawn1 ==
    /\ pc["main"] = "spawn1"
    /\ pc' = [pc EXCEPT !["main"] = "spawn2", !["thread1"] = "ctor"]
    /\ UNCHANGED <<semVars, memVars, mainVars, cfgVars, genVars, workerFrame>>

\* std::thread thread2(thread2Func)
MainSpawn2 ==
    /\ pc["main"] = "spawn2"
    /\ pc' = [pc EXCEPT !["main"] = "reset_X", !["thread2"] = "ctor"]
    /\ UNCHANGED <<semVars, memVars, mainVars, cfgVars, genVars, workerFrame>>

\* X = 0
MainResetX ==
    /\ pc["main"] = "reset_X"
    /\ Store("main", "X", 0)
    /\ pc' = [pc EXCEPT !["main"] = "reset_Y"]
    /\ endOrder' = <<>>
    /\ UNCHANGED <<semVars, mainVars, cfgVars, genVars, reg, overtook>>

\* Faulty variant of MainResetY: Y is not reset.
MainResetY_Skipped ==
    /\ pc["main"] = "reset_Y"
    /\ pc' = [pc EXCEPT !["main"] = "signal1"]
    /\ UNCHANGED <<semVars, memVars, mainVars, cfgVars, genVars, workerFrame>>

\* Y = 0
MainResetY ==
    /\ pc["main"] = "reset_Y"
    /\ Store("main", "Y", 0)
    /\ pc' = [pc EXCEPT !["main"] = "signal1"]
    /\ UNCHANGED <<semVars, mainVars, cfgVars, genVars, workerFrame>>

\* Faulty variant of MainSignal1: the signal goes to beginSema2.
MainSignal1_WrongSema ==
    /\ pc["main"] = "signal1"
    /\ sem_signal("main", "beginSema2", "signal2")
    /\ UNCHANGED <<memVars, mainVars, cfgVars, genVars, workerFrame>>

\* sem_signal(beginSema1)
MainSignal1 ==
    /\ pc["main"] = "signal1"
    /\ sem_signal("main", "beginSema1", "signal2")
    /\ UNCHANGED <<memVars, mainVars, cfgVars, genVars, workerFrame>>

\* Faulty variant of MainSignal2: beginSema2 is not signalled.
MainSignal2_Skipped ==
    /\ pc["main"] = "signal2"
    /\ pc' = [pc EXCEPT !["main"] = "wait_end1"]
    /\ UNCHANGED <<semVars, memVars, mainVars, cfgVars, genVars, workerFrame>>

\* sem_signal(beginSema2)
MainSignal2 ==
    /\ pc["main"] = "signal2"
    /\ sem_signal("main", "beginSema2", "wait_end1")
    /\ UNCHANGED <<memVars, mainVars, cfgVars, genVars, workerFrame>>

\* Faulty variant of MainWaitEnd1: the first wait on endSema is left out.
MainWaitEnd1_Skipped ==
    /\ pc["main"] = "wait_end1"
    /\ pc' = [pc EXCEPT !["main"] = "wait_end2"]
    /\ UNCHANGED <<semVars, memVars, mainVars, cfgVars, genVars, workerFrame>>

\* the first sem_wait(endSema)
MainWaitEnd1 ==
    /\ pc["main"] = "wait_end1"
    /\ sem_wait("main", "endSema", "wait_end2")
    /\ UNCHANGED <<memVars, mainVars, cfgVars, genVars, workerFrame>>

\* Faulty variant of MainWaitEnd2: main waits on endSema once only.
MainWaitEnd2_Skipped ==
    /\ pc["main"] = "wait_end2"
    /\ pc' = [pc EXCEPT !["main"] = "check_r1"]
    /\ UNCHANGED <<semVars, memVars, mainVars, cfgVars, genVars, workerFrame>>

\* the second sem_wait(endSema)
MainWaitEnd2 ==
    /\ pc["main"] = "wait_end2"
    /\ sem_wait("main", "endSema", "check_r1")
    /\ UNCHANGED <<memVars, mainVars, cfgVars, genVars, workerFrame>>

\* if (r1 == 0 && ...): the left operand; a non-zero r1 skips the right one.
MainCheckR1 ==
    /\ pc["main"] = "check_r1"
    /\ pc' = [pc EXCEPT !["main"] =
                 IF Read("main", "r1") = 0 THEN "check_r2" ELSE "next_pass"]
    /\ UNCHANGED <<semVars, memVars, mainVars, cfgVars, genVars, workerFrame>>

\* Faulty variant of MainCheckR2: the report is written before detected++.
MainCheckR2_ReportsOldCount ==
    /\ pc["main"] = "check_r2"
    /\ IF Read("main", "r2") = 0
       THEN /\ detected' = detected + 1
            /\ out' = Append(out, <<detected, iterations>>)
       ELSE UNCHANGED <<detected, out>>
    /\ pc' = [pc EXCEPT !["main"] = "next_pass"]
    /\ UNCHANGED <<semVars, memVars, iterations, cfgVars, genVars,
                   workerFrame>>

\* Faulty variant of MainCheckR2: detected++ and the report are outside the
\* test of r2.
MainCheckR2_CountsAlways ==
    /\ pc["main"] = "check_r2"
    /\ detected' = detected + 1
    /\ out' = Append(out, <<detected + 1, iterations>>)
    /\ pc' = [pc EXCEPT !["main"] = "next_pass"]
    /\ UNCHANGED <<semVars, memVars, iterations, cfgVars, genVars,
                   workerFrame>>

\* ... && r2 == 0) { detected++; std::cout << detected << ... << iterations }
MainCheckR2 ==
    /\ pc["main"] = "check_r2"
    /\ IF Read("main", "r2") = 0
       THEN /\ detected' = detected + 1
            /\ out' = Append(out, <<detected + 1, iterations>>)
       ELSE UNCHANGED <<detected, out>>
    /\ pc' = [pc EXCEPT !["main"] = "next_pass"]
    /\ UNCHANGED <<semVars, memVars, iterations, cfgVars, genVars,
                   workerFrame>>

\* iterations++ and the next pass of the loop (MaxIter passes are explored).
MainNextPass ==
    /\ pc["main"] = "next_pass"
    /\ iterations < MaxIter
    /\ iterations' = iterations + 1
    /\ pc' = [pc EXCEPT !["main"] = "reset_X"]
    /\ UNCHANGED <<semVars, memVars, detected, out, cfgVars, genVars,
                   workerFrame>>

main ==
    \/ MainSpawn1
    \/ MainSpawn2
    \/ MainResetX
    \/ MainResetY
    \/ MainSignal1
    \/ MainSignal2
    \/ MainWaitEnd1
    \/ MainWaitEnd2
    \/ MainCheckR1
    \/ MainCheckR2
    \/ MainNextPass

----------------------------------------------------------------------------
(* The harness *)

\* The specifications of the harness and of the semaphore draw the delays
\* from DrawValues and hold no generator object.
NoGenerator ==
    /\ random = <<>>
    /\ calls = <<>>
    /\ drawn = <<>>
    /\ random0 = <<>>

\* The globals are zero-initialised, main stores 0 in the three semaphores
\* and has detected = 0 and iterations = 1 when it enters its loop.
InitHarness ==
    /\ pc = [t \in Threads |-> IF t = "main" THEN "spawn1" ELSE "unborn"]
    /\ semPc = [t \in Threads |-> "load"]
    /\ oldCount = [t \in Threads |-> 0]
    /\ sema = [s \in Semas |-> 0]
    /\ mem = [a \in Cells |-> 0]
    /\ sb = [t \in Threads |-> <<>>]
    /\ reg = [w \in Workers |-> 0]
    /\ detected = 0
    /\ iterations = 1
    /\ out = <<>>
    /\ nSignal = [s \in Semas |-> 0]
    /\ nWaitRet = [s \in Semas |-> 0]
    /\ ver = [a \in Cells |-> 0]
    /\ nWrite = [a \in Cells |-> 0]
    /\ endOrder = <<>>
    /\ overtook = [w \in Workers |-> FALSE]

\* The build as committed (USE_CPU_FENCE 0) on hardware with store buffers.
Init ==
    /\ InitHarness
    /\ NoGenerator
    /\ USE_CPU_FENCE = 0
    /\ storeBuffers = TRUE

\* The build with USE_CPU_FENCE 1 on hardware with store buffers.
InitFence ==
    /\ InitHarness
    /\ NoGenerator
    /\ USE_CPU_FENCE = 1
    /\ storeBuffers = TRUE

\* Either build on sequentially consistent memory.
InitSC ==
    /\ InitHarness
    /\ NoGenerator
    /\ USE_CPU_FENCE \in {0, 1}
    /\ storeBuffers = FALSE

NextSC ==
    \/ main
    \/ thread1Func
    \/ thread2Func

Next ==
    \/ main
    \/ thread1Func
    \/ thread2Func
    \/ \E t \in Threads : Flush(t)

Spec == Init /\ [][Next]_vars
SpecFence == InitFence /\ [][Next]_vars
SpecSC == InitSC /\ [][NextSC]_vars

\* The harness under a scheduler that lets every thread run again and again
\* and hardware that drains every store buffer.  A draw of the delay loop
\* that does not end the loop leaves the state unchanged, so fairness to a
\* worker makes its delay loop end.
SpecLive ==
    /\ Init
    /\ [][Next]_vars
    /\ WF_vars(main)
    /\ WF_vars(thread1Func)
    /\ WF_vars(thread2Func)
    /\ \A t \in Threads : WF_vars(Flush(t))

----------------------------------------------------------------------------
(* One semaphore used by any threads: every thread, when it is not inside a
   call, calls sem_signal or sem_wait.  The steps are those of the harness. *)

harnessVars == <<mem, sb, reg, detected, iterations, out, USE_CPU_FENCE,
                 storeBuffers, ver, nWrite, endOrder, overtook, genVars>>

InitSem ==
    /\ pc = [t \in SemThreads |-> "idle"]
    /\ semPc = [t \in SemThreads |-> "load"]
    /\ oldCount = [t \in SemThreads |-> 0]
    /\ sema = [s \in {"sema"} |-> 0]
    /\ nSignal = [s \in {"sema"} |-> 0]
    /\ nWaitRet = [s \in {"sema"} |-> 0]
    /\ mem = [a \in Cells |-> 0]
    /\ sb = [t \in SemThreads |-> <<>>]
    /\ reg = [w \in Workers |-> 0]
    /\ detected = 0
    /\ iterations = 1
    /\ out = <<>>
    /\ USE_CPU_FENCE = 0
    /\ storeBuffers = TRUE
    /\ ver = [a \in Cells |-> 0]
    /\ nWrite = [a \in Cells |-> 0]
    /\ endOrder = <<>>
    /\ overtook = [w \in Workers |-> FALSE]
    /\ NoGenerator

\* A call of sem_signal (MaxSignals calls are explored).
SemSignal(t) ==
    /\ pc[t] = "idle"
    /\ nSignal["sema"] < MaxSignals
    /\ sem_signal(t, "sema", "idle")
    /\ UNCHANGED harnessVars

\* A call of sem_wait begins.
SemWaitCall(t) ==
    /\ pc[t] = "idle"
    /\ pc' = [pc EXCEPT ![t] = "wait"]
    /\ UNCHANGED <<semVars, harnessVars>>

\* A step of a call of sem_wait.
SemWait(t) ==
    /\ pc[t] = "wait"
    /\ sem_wait(t, "sema", "idle")
    /\ UNCHANGED harnessVars

NextSem ==
    \E t \in SemThreads :
        \/ SemSignal(t)
        \/ SemWaitCall(t)
        \/ SemWait(t)

SpecSem == InitSem /\ [][NextSem]_vars

----------------------------------------------------------------------------
(* The delay generator: class MersenneTwister *)

MT_IA == 397
MT_LEN == 624
\* Draws of each worker that are explored once its generator is constructed.
MaxDraws == 10

\* An unsigned 32-bit value is the pair <<high 16 bits, low 16 bits>>.
Word(n) == <<n \div 65536, n % 65536>>

\* One bit of the operators ^, & and | of the code.
Bit(op, x, y) ==
    IF op = "xor" THEN (x + y) % 2
    ELSE IF op = "and" THEN x * y
    ELSE (x + y) - (x * y)

\* The operator on two values of four bits.
RECURSIVE Nibble(_, _, _)
Nibble(op, a, b) ==
    IF a = 0 /\ b = 0 THEN 0
    ELSE Bit(op, a % 2, b % 2) + (2 * Nibble(op, a \div 2, b \div 2))

\* The n results for the pairs of nibbles lo, lo + 1, .. (a pair is 16a + b).
RECURSIVE Row(_, _, _)
Row(op, lo, n) ==
    IF n = 1 THEN <<Nibble(op, lo \div 16, lo % 16)>>
    ELSE Row(op, lo, n \div 2) \o Row(op, lo + (n \div 2), n - (n \div 2))

XorTable == Row("xor", 0, 256)
AndTable == Row("and", 0, 256)
OrTable == Row("or", 0, 256)

\* The operator of table T on two values of sixteen bits, nibble by nibble.
Op16(T, a, b) ==
    T[((a % 16) * 16) + (b % 16) + 1]
    + (16 * T[(((a \div 16) % 16) * 16) + ((b \div 16) % 16) + 1])
    + (256 * T[(((a \div 256) % 16) * 16) + ((b \div 256) % 16) + 1])
    + (4096 * T[((a \div 4096) * 16) + (b \div 4096) + 1])

\* The operators ^, &, |, >> and << of the code on unsigned 32-bit values.
Xor(u, v) == <<Op16(XorTable, u[1], v[1]), Op16(XorTable, u[2], v[2])>>
And(u, v) == <<Op16(AndTable, u[1], v[1]), Op16(AndTable, u[2], v[2])>>
Or(u, v) == <<Op16(OrTable, u[1], v[1]), Op16(OrTable, u[2], v[2])>>
Shr(u, n) ==
    IF n >= 16 THEN <<0, u[1] \div (2 ^ (n - 16))>>
    ELSE <<u[1] \div (2 ^ n),
           ((u[1] % (2 ^ n)) * (2 ^ (16 - n))) + (u[2] \div (2 ^ n))>>
Shl(u, n) ==
    IF n >= 16 THEN <<(u[2] * (2 ^ (n - 16))) % 65536, 0>>
    ELSE <<((u[1] * (2 ^ n)) % 65536) + (u[2] \div (2 ^ (16 - n))),
           (u[2] * (2 ^ n)) % 65536>>

\* The seed each worker gives its generator.
seed(w) == IF w = "thread1" THEN 1 ELSE 2

RECURSIVE Fill(_, _)
Fill(n, v) ==
    IF n = 0 THEN <<>>
    ELSE IF n = 1 THEN <<v>>
    ELSE Fill(n \div 2, v) \o Fill(n - (n \div 2), v)

\* The constructor up to its loop: every cell holds the seed, m_index is 0.
Seeded(sd) == [m_buffer |-> Fill(MT_LEN, Word(sd)), m_index |-> 0]

\* The locals of integer() in generator state g.
integer_i(g) == g.m_index
integer_i2(g) == IF g.m_index + 1 >= MT_LEN THEN 0 ELSE g.m_index + 1
integer_j(g) ==
    IF g.m_index + MT_IA >= MT_LEN THEN g.m_index + MT_IA - MT_LEN
    ELSE g.m_index + MT_IA
integer_s(g) ==
    Or(And(g.m_buffer[integer_i(g) + 1], <<32768, 0>>),
       And(g.m_buffer[integer_i2(g) + 1], <<32767, 65535>>))
\* r before the swizzle: the value stored in the buffer.
integer_r(g) ==
    LET s == integer_s(g)
    IN  Xor(Xor(g.m_buffer[integer_j(g) + 1], Shr(s, 1)),
            IF s[2] % 2 = 1 THEN <<39176, 45279>> ELSE <<0, 0>>)

\* The swizzle.
Swizzle(r) ==
    LET a == Xor(r, Shr(r, 11))
        b == Xor(a, And(Shl(a, 7), <<40236, 22144>>))
        c == Xor(b, And(Shl(b, 15), <<61382, 0>>))
    IN  Xor(c, Shr(c, 18))

\* The value integer() returns in state g.
integer(g) == Swizzle(integer_r(g))

\* Faulty variant: the twisted value is stored in the next cell.
integer_state_WritesNext(g) ==
    [m_buffer |-> [g.m_buffer EXCEPT ![integer_i2(g) + 1] = integer_r(g)],
     m_index |-> integer_i2(g)]

\* The state integer() leaves behind when called in state g.
integer_state(g) ==
    [m_buffer |-> [g.m_buffer EXCEPT ![g.m_index + 1] = integer_r(g)],
     m_index |-> integer_i2(g)]

\* n calls of integer(), the results discarded.
RECURSIVE Calls(_, _)
Calls(g, n) ==
    IF n = 0 THEN g
    ELSE IF n = 1 THEN integer_state(g)
    ELSE LET half == Calls(g, n \div 2)
         IN  IF half.m_index < MT_LEN
             THEN Calls(half, n - (n \div 2))
             ELSE half

\* The values the next n calls of integer() return.
RECURSIVE Values(_, _)
Values(g, n) ==
    IF n = 0 THEN <<>>
    ELSE <<integer(g)>> \o Values(integer_state(g), n - 1)

\* The constructor.
MersenneTwister(sd) == Calls(Seeded(sd), MT_LEN * 100)

\* A call of integer() in the constructor's loop.
CtorCall(w) ==
    /\ calls[w] < MT_LEN * 100
    /\ random' = [random EXCEPT ![w] = integer_state(@)]
    /\ calls' = [calls EXCEPT ![w] = @ + 1]
    /\ UNCHANGED <<pc, semVars, memVars, mainVars, cfgVars, workerFrame,
                   drawn, random0>>

\* Faulty variant: the generator is one object that both workers draw from.
Draw_SharedGenerator(w) ==
    /\ calls[w] >= MT_LEN * 100
    /\ Len(drawn[w]) < MaxDraws
    /\ random' = [v \in DOMAIN random |-> integer_state(random[w])]
    /\ calls' = [calls EXCEPT ![w] = @ + 1]
    /\ drawn' = [drawn EXCEPT ![w] = Append(@, integer(random[w]))]
    /\ UNCHANGED <<pc, semVars, memVars, mainVars, cfgVars, workerFrame,
                   random0>>

\* A call of integer() in the delay loop of the generator's owner.
Draw(w) ==
    /\ calls[w] >= MT_LEN * 100
    /\ Len(drawn[w]) < MaxDraws
    /\ random' = [random EXCEPT ![w] = integer_state(@)]
    /\ calls' = [calls EXCEPT ![w] = @ + 1]
    /\ drawn' = [drawn EXCEPT ![w] = Append(@, integer(random[w]))]
    /\ UNCHANGED <<pc, semVars, memVars, mainVars, cfgVars, workerFrame,
                   random0>>

\* One generator from the start of its constructor's loop to its draws.
InitMT ==
    /\ InitHarness
    /\ USE_CPU_FENCE = 0
    /\ storeBuffers = TRUE
    /\ \E w \in Workers :
          /\ random = (w :> Seeded(seed(w)))
          /\ calls = (w :> 0)
          /\ drawn = (w :> <<>>)
    /\ random0 = random

NextMT ==
    \E w \in DOMAIN random :
        \/ CtorCall(w)
        \/ Draw(w)

SpecMT == InitMT /\ [][NextMT]_vars

\* The two generators, constructed, drawn from in any order.
InitDraw ==
    /\ InitHarness
    /\ USE_CPU_FENCE = 0
    /\ storeBuffers = TRUE
    /\ random = ("thread1" :> MersenneTwister(seed("thread1")))
                   @@ ("thread2" :> MersenneTwister(seed("thread2")))
    /\ calls = [w \in Workers |-> MT_LEN * 100]
    /\ drawn = [w \in Workers |-> <<>>]
    /\ random0 = random

NextDraw == \E w \in Workers : Draw(w)

SpecDraw == InitDraw /\ [][NextDraw]_vars

----------------------------------------------------------------------------
(* Properties *)

\* A worker is in flight from its return from sem_wait(beginSema) to its
\* sem_signal(endSema).
InFlightPcs == {"delay", "store", "barrier", "load", "store_result", "signal_end"}
InFlight == Cardinality({w \in Workers : pc[w] \in InFlightPcs})
Inspecting == pc["main"] \in {"check_r1", "check_r2"}

\* C1 (Spec): handshake safety.  Whenever main is about to execute X = 0 or
\* Y = 0, and whenever one of these stores is still on its way to memory, no
\* worker is in flight.
C1_NoWorkerInFlightAtReset ==
    (pc["main"] \in {"reset_X", "reset_Y"} \/ sb["main"] # <<>>) => InFlight = 0

\* main resets the flags for its second pass, after both workers have run a
\* transaction, with the first reset still buffered.
C1_Witness ==
    /\ pc["main"] = "reset_Y"
    /\ iterations = 2
    /\ sb["main"] # <<>>
    /\ nWaitRet["beginSema1"] = 1
    /\ nWaitRet["beginSema2"] = 1

\* C2 (SpecSem): the semaphore invariant.  In every interleaving of the
\* steps of sem_signal and sem_wait on one semaphore the count is never
\* negative and the sem_wait calls that have returned are at most the
\* increments performed.
C2_SemaphoreInvariant ==
    /\ sema["sema"] >= 0
    /\ nWaitRet["sema"] <= nSignal["sema"]

\* A thread is about to compare-exchange with an oldCount that is no longer
\* the count, after another sem_wait has returned.
C2_Witness ==
    /\ nWaitRet["sema"] >= 1
    /\ \E t \in SemThreads :
          /\ pc[t] = "wait"
          /\ semPc[t] = "cas"
          /\ oldCount[t] # sema["sema"]

\* C3 (SpecSC): impossibility without reordering.  On sequentially
\* consistent memory main never finds r1 = 0 and r2 = 0 at its inspection,
\* and the detection counter stays 0.
C3_NoDetectionUnderSC ==
    /\ detected = 0
    /\ out = <<>>
    /\ Inspecting => (r1 = 1 \/ r2 = 1)

\* main has found r1 = 0 in its second pass and is about to test r2.
C3_Witness ==
    /\ ~storeBuffers
    /\ pc["main"] = "check_r2"
    /\ iterations = 2
    /\ r1 = 0
    /\ r2 = 1

\* C4 (SpecFence): with USE_CPU_FENCE 1 and FIFO store buffers, at every
\* inspection r1 = 1 or r2 = 1: the outcome (0, 0) is unreachable and nothing
\* is detected.
C4_FenceForbidsZeroZero ==
    (USE_CPU_FENCE = 1 /\ storeBuffers) =>
        /\ Inspecting \/ pc["main"] = "next_pass" => ~(r1 = 0 /\ r2 = 0)
        /\ detected = 0

\* With the fence, main has found r1 = 0 in its second pass; the other worker
\* read 1.
C4_Witness ==
    /\ USE_CPU_FENCE = 1
    /\ storeBuffers
    /\ pc["main"] = "check_r2"
    /\ iterations = 2
    /\ r1 = 0
    /\ r2 = 1
    /\ nWrite["X"] = 4

\* C5 (Spec): with the compiler barrier only and FIFO store buffers there is
\* an execution in which main finds r1 = 0 and r2 = 0 and counts a detection
\* (C5_Witness); and whenever main finds (0, 0), the load of at least one
\* worker ran while that worker's own flag store was still in its buffer.
C5_ZeroZeroOnlyByBufferedStore ==
    (USE_CPU_FENCE = 0 /\ storeBuffers) =>
        ((Inspecting \/ pc["main"] = "next_pass") /\ r1 = 0 /\ r2 = 0
            => \E w \in Workers : overtook[w])

\* main has counted a detection.
C5_Witness ==
    /\ USE_CPU_FENCE = 0
    /\ pc["main"] = "next_pass"
    /\ r1 = 0
    /\ r2 = 0
    /\ detected > 0

\* C6 (Spec): at the inspection main has consumed two completion signals of
\* the current pass, one from each worker, and r1 and r2 have each reached
\* memory once per pass; from the return of the second end-wait to the next
\* begin signal no worker is in flight and no store of a worker is pending.
C6_ResultsReadAfterBothSignals ==
    /\ Inspecting =>
          /\ nWaitRet["endSema"] = 2 * iterations
          /\ nSignal["endSema"] = 2 * iterations
          /\ Len(endOrder) = 2
          /\ {endOrder[1], endOrder[2]} = Workers
          /\ nWrite["r1"] = iterations
          /\ nWrite["r2"] = iterations
    /\ pc["main"] \in {"check_r1", "check_r2", "next_pass", "reset_X",
                       "reset_Y", "signal1"} =>
          \A w \in Workers : pc[w] \notin InFlightPcs /\ sb[w] = <<>>

\* The inspection of the second pass, thread2 having signalled first.
C6_Witness ==
    /\ pc["main"] = "check_r1"
    /\ iterations = 2
    /\ endOrder = <<"thread2", "thread1">>
    /\ nWrite["r1"] = 2
    /\ nWrite["r2"] = 2

\* C7 (Spec): release/acquire publication with store buffers.  The flag a
\* worker is about to load holds a store of the worker's current pass (main's
\* reset or the other worker's store), never one of an earlier pass, and
\* that pass is main's; at the inspection r1 and r2 hold the stores of the
\* current pass, in whichever order the workers signalled endSema.
C7_Publication ==
    /\ \A w \in Workers :
          pc[w] = "load" =>
              /\ pass(w) = iterations
              /\ ver[otherFlag(w)] = pass(w)
              /\ sb["main"] = <<>>
    /\ Inspecting =>
          /\ ver["r1"] = iterations
          /\ ver["r2"] = iterations
          /\ r1 = reg["thread1"]
          /\ r2 = reg["thread2"]

\* The inspection of the third pass, thread2 having signalled first, with
\* results that differ from those the previous pass could have left.
C7_Witness ==
    /\ pc["main"] = "check_r1"
    /\ iterations = 3
    /\ endOrder = <<"thread2", "thread1">>
    /\ ver["r1"] = 3
    /\ ver["r2"] = 3
    /\ r1 = 1
    /\ r2 = 0

\* C8 (Spec): the reports number the detections 1, 2, ... and carry the
\* pass in which each was made; a pass in which main found r1 = 0 and
\* r2 = 0 has added one to detected and written the report <<detected,
\* iterations>>, any other pass has changed neither, and before main's test
\* no report names the current pass.  iterations starts at 1.
C8_OneReportPerDetection ==
    /\ iterations >= 1
    /\ Len(out) = detected
    /\ \A i \in 1 .. Len(out) :
          /\ out[i][1] = i
          /\ out[i][2] \in 1 .. iterations
          /\ i > 1 => out[i - 1][2] < out[i][2]
    /\ pc["main"] = "next_pass" =>
          ((r1 = 0 /\ r2 = 0) <=>
              (out # <<>> /\ out[Len(out)] = <<detected, iterations>>))
    /\ pc["main"] # "next_pass" =>
          \A i \in 1 .. Len(out) : out[i][2] < iterations

\* The second detection is made in the third pass: the report carries the
\* count 2 and the pass 3.
C8_Witness ==
    /\ pc["main"] = "next_pass"
    /\ detected = 2
    /\ out = << <<1, 1>>, <<2, 3>> >>

\* C9, as claimed (Spec): a worker has returned from its k-th begin-wait only
\* if both begin semaphores have been signalled k times.
C9_BothSignalsBeforeEitherProceeds ==
    \A w \in Workers :
        /\ nWaitRet[beginSema(w)] <= nSignal["beginSema1"]
        /\ nWaitRet[beginSema(w)] <= nSignal["beginSema2"]

\* C9, amended (Spec): a worker has returned from its k-th begin-wait only if
\* its own begin semaphore has been signalled k times, after main's resets of
\* that pass have reached memory; thread2, signalled second, has then seen
\* both signals, while thread1 may run before sem_signal(beginSema2).
C9_OwnSignalBeforeProceeds ==
    /\ \A w \in Workers :
          /\ nWaitRet[beginSema(w)] <= nSignal[beginSema(w)]
          /\ pc[w] \in InFlightPcs =>
                /\ nSignal[beginSema(w)] = iterations
                /\ pc["main"] \notin {"reset_X", "reset_Y", "signal1"}
                /\ sb["main"] = <<>>
    /\ nWaitRet["beginSema2"] <= nSignal["beginSema1"]
    /\ pc["thread2"] \in InFlightPcs => pc["main"] # "signal2"

\* thread1 has finished its transaction before main signals beginSema2.
C9_Witness ==
    /\ pc["main"] = "signal2"
    /\ iterations = 2
    /\ pc["thread1"] = "signal_end"
    /\ nSignal["beginSema2"] = 1

\* C10 (Spec): when a worker is about to store 1 in its flag, the flag is 0
\* in memory and in no buffer, both flags hold a store of the current pass,
\* so main's resets of this pass came after the stores of the previous
\* pass, and the other flag is 1 only if the other worker has stored it in
\* this pass.
C10_FlagsResetBeforeTransaction ==
    \A w \in Workers :
        pc[w] \in {"delay", "store"} =>
            /\ pass(w) = iterations
            /\ mem[ownFlag(w)] = 0
            /\ \A t \in Threads : Pending(t, ownFlag(w)) = {}
            /\ ver[ownFlag(w)] = iterations
            /\ ver[otherFlag(w)] = iterations
            /\ Pending("main", otherFlag(w)) = {}
            /\ mem[otherFlag(w)] = 1 =>
                  /\ pass(other(w)) = iterations
                  /\ pc[other(w)] \notin {"delay", "store"}

\* Both workers are about to store in the second pass: both flags, 1 at the
\* end of the first pass, are 0 again.
C10_Witness ==
    /\ pc["thread1"] = "store"
    /\ pc["thread2"] = "store"
    /\ iterations = 2
    /\ nWrite["X"] = 3
    /\ nWrite["Y"] = 3
    /\ X = 0
    /\ Y = 0

\* C11 (SpecSem): sem_wait against a count that changes between its load
\* and its compare-exchange.  A compare-exchange whose oldCount is no longer
\* the count leaves the count alone and sends the caller to sched_yield and
\* a new round; a sem_wait returns only in a step that takes the count from
\* a positive value to one less; and every return has consumed one increment,
\* so that of the threads waiting on a count n at most n return before the
\* next sem_signal.
C11_WaitRetriesOnStaleCount ==
    /\ [](sema["sema"] >= 0 /\ sema["sema"] + nWaitRet["sema"] = nSignal["sema"])
    /\ [][/\ \A t \in SemThreads :
                (/\ pc[t] = "wait"
                 /\ semPc[t] = "cas"
                 /\ oldCount[t] # sema["sema"]
                 /\ semPc'[t] # semPc[t] \/ pc'[t] # pc[t])
                => /\ sema' = sema
                   /\ nWaitRet' = nWaitRet
                   /\ pc'[t] = "wait"
                   /\ semPc'[t] = "yield"
                   /\ oldCount'[t] = sema["sema"]
          /\ \A t \in SemThreads :
                (pc[t] = "wait" /\ pc'[t] = "idle")
                => /\ semPc[t] = "cas"
                   /\ sema["sema"] > 0
                   /\ sema'["sema"] = sema["sema"] - 1
                   /\ nWaitRet'["sema"] = nWaitRet["sema"] + 1
          /\ nWaitRet' # nWaitRet =>
                \E t \in SemThreads : pc[t] = "wait" /\ pc'[t] = "idle"
       ]_vars

\* A thread is back in the loop after a compare-exchange that failed: it
\* yields holding the positive count it found, while another sem_wait has
\* returned.
C11_Witness ==
    /\ nWaitRet["sema"] >= 1
    /\ \E t \in SemThreads :
          /\ pc[t] = "wait"
          /\ semPc[t] = "yield"
          /\ oldCount[t] > 0

\* C12 (Spec): a worker moves through its loop in program order only:
\* return from sem_wait(beginSema), delay, store of its flag, barrier, load of
\* the other flag, store of its result, sem_signal(endSema), and back to the
\* wait.  It leaves the wait only by consuming a begin signal, endSema is
\* signalled only by a worker at the end of a transaction, so a worker has
\* signalled once per begin signal consumed, and between two resets of main
\* each worker has signalled endSema exactly once.
C12_OneTransactionPerBeginSignal ==
    /\ [](/\ nSignal["endSema"] =
               (nWaitRet["beginSema1"]
                  - (IF pc["thread1"] \in InFlightPcs THEN 1 ELSE 0))
             + (nWaitRet["beginSema2"]
                  - (IF pc["thread2"] \in InFlightPcs THEN 1 ELSE 0))
          /\ \A w \in Workers :
                /\ nWrite[result(w)] <= nWaitRet[beginSema(w)]
                /\ pc[w] \notin InFlightPcs =>
                      nWrite[result(w)] = nWaitRet[beginSema(w)]
          /\ pc["main"] = "reset_X" =>
                IF iterations = 1
                THEN endOrder = <<>>
                ELSE Len(endOrder) = 2 /\ {endOrder[1], endOrder[2]} = Workers)
    /\ [][/\ \A w \in Workers :
                pc'[w] # pc[w] =>
                   /\ <<pc[w], pc'[w]>> \in
                         {<<"unborn", "ctor">>, <<"ctor", "wait_begin">>,
                          <<"wait_begin", "delay">>, <<"delay", "store">>,
                          <<"store", "barrier">>, <<"barrier", "load">>,
                          <<"load", "store_result">>,
                          <<"store_result", "signal_end">>,
                          <<"signal_end", "wait_begin">>}
                   /\ pc[w] = "wait_begin" =>
                         /\ sema[beginSema(w)] > 0
                         /\ sema'[beginSema(w)] = sema[beginSema(w)] - 1
                         /\ nWaitRet'[beginSema(w)] = nWaitRet[beginSema(w)] + 1
                   /\ pc[w] = "signal_end" =>
                         /\ sema'["endSema"] = sema["endSema"] + 1
                         /\ nSignal'["endSema"] = nSignal["endSema"] + 1
          /\ nSignal'["endSema"] # nSignal["endSema"] =>
                \E w \in Workers : pc[w] = "signal_end" /\ pc'[w] = "wait_begin"
       ]_vars

\* thread1 has finished its second transaction and waits again; thread2 is
\* still in its second transaction.
C12_Witness ==
    /\ pc["thread1"] = "wait_begin"
    /\ nWaitRet["beginSema1"] = 2
    /\ endOrder = <<"thread1">>
    /\ pc["thread2"] = "load"
    /\ nSignal["endSema"] = 3

\* C13 (Spec): cell ownership.  The stores of thread1 are to X (the value 1)
\* and r1, those of thread2 to Y (the value 1) and r2, those of main to X and
\* Y (the value 0); a store of a worker is issued and reaches memory only
\* while the worker is in flight; a worker loads the flag of the other worker
\* and no other cell; and every step that is not the arrival of a store in
\* memory, the steps of the semaphores among them, leaves X, Y, r1 and r2
\* unchanged.
C13_CellOwnership ==
    /\ [](/\ \A w \in Workers :
                /\ \A i \in 1 .. Len(sb[w]) :
                      \/ sb[w][i].a = ownFlag(w) /\ sb[w][i].v = 1
                      \/ sb[w][i].a = result(w)
                /\ sb[w] # <<>> => pc[w] \in InFlightPcs
          /\ \A i \in 1 .. Len(sb["main"]) :
                sb["main"][i].a \in {"X", "Y"} /\ sb["main"][i].v = 0)
    /\ [][/\ \A a \in Cells :
                (mem'[a] # mem[a] \/ nWrite'[a] # nWrite[a]) =>
                    \E t \in Threads :
                        /\ sb[t] # <<>>
                        /\ sb'[t] = Tail(sb[t])
                        /\ Head(sb[t]).a = a
                        /\ mem'[a] = Head(sb[t]).v
                        /\ t \in Workers => pc[t] \in InFlightPcs
                        /\ \A b \in Cells \ {a} :
                              mem'[b] = mem[b] /\ nWrite'[b] = nWrite[b]
          /\ (pc' # pc \/ semPc' # semPc \/ sema' # sema \/ oldCount' # oldCount)
                => mem' = mem /\ nWrite' = nWrite
          /\ \A w \in Workers :
                /\ Len(sb'[w]) > Len(sb[w]) => pc[w] \in {"store", "store_result"}
                /\ reg'[w] # reg[w] => pc[w] = "load"
                /\ (pc[w] = "load" /\ pc'[w] # pc[w]) =>
                      reg'[w] = mem[otherFlag(w)]
       ]_vars

\* thread2 has its flag and its result in memory and is about to signal;
\* thread1 has loaded Y with its store of X still buffered.
C13_Witness ==
    /\ pc["thread2"] = "signal_end"
    /\ sb["thread2"] = <<>>
    /\ nWrite["r2"] = 2
    /\ nWrite["Y"] = 4
    /\ pc["thread1"] = "store_result"
    /\ Len(sb["thread1"]) = 1
    /\ sb["thread1"][1].a = "X"

\* C14, as claimed (Spec): detected and iterations are each incremented once
\* in every pass of main's loop, so that at the end of pass k, before
\* iterations++, detected is k.
C14_BothIncrementedEveryPass ==
    pc["main"] = "next_pass" => detected = iterations

\* C14, amended (Spec): detected and iterations never decrease and change
\* only in steps of main, never in a step of a worker or of a store buffer;
\* iterations is incremented once per pass, at the end of the pass;
\* detected is incremented at most once per pass, in the passes in which
\* main finds r1 = 0 and r2 = 0, and not in the others.
C14_CountersOwnedByMain ==
    /\ [](/\ iterations >= 1
          /\ detected >= 0
          /\ detected <= iterations - (IF pc["main"] = "next_pass" THEN 0 ELSE 1)
          /\ nSignal["beginSema1"] =
                iterations - (IF pc["main"] \in {"spawn1", "spawn2", "reset_X",
                                                 "reset_Y", "signal1"}
                              THEN 1 ELSE 0))
    /\ [][/\ detected' # detected =>
                /\ detected' = detected + 1
                /\ pc["main"] = "check_r2"
                /\ pc'["main"] = "next_pass"
                /\ r1 = 0 /\ r2 = 0
                /\ \A w \in Workers : pc'[w] = pc[w]
          /\ (pc["main"] \in {"check_r1", "check_r2"}
                /\ pc'["main"] = "next_pass" /\ ~(r1 = 0 /\ r2 = 0))
                => detected' = detected
          /\ iterations' # iterations =>
                /\ iterations' = iterations + 1
                /\ pc["main"] = "next_pass"
                /\ pc'["main"] = "reset_X"
                /\ \A w \in Workers : pc'[w] = pc[w]
          /\ pc'["main"] = pc["main"] =>
                detected' = detected /\ iterations' = iterations
       ]_vars

\* The end of the third pass with one detection counted: two passes have
\* left detected alone.
C14_Witness ==
    /\ pc["main"] = "next_pass"
    /\ iterations = 3
    /\ detected = 1

\* C16 (Spec): the counts are bounded by the protocol.  beginSema1 and
\* beginSema2 are 0 or 1, endSema is 0, 1 or 2, and main signals a begin
\* semaphore only when it holds 0.
C16_CountsBounded ==
    /\ sema["beginSema1"] \in {0, 1}
    /\ sema["beginSema2"] \in {0, 1}
    /\ sema["endSema"] \in {0, 1, 2}
    /\ pc["main"] = "signal1" => sema["beginSema1"] = 0
    /\ pc["main"] = "signal2" => sema["beginSema2"] = 0

\* In the second pass both workers have signalled before main has consumed
\* either signal, and main is about to compare-exchange on the count 2.
C16_Witness ==
    /\ sema["endSema"] = 2
    /\ iterations = 2
    /\ pc["main"] = "wait_end1"
    /\ semPc["main"] = "cas"
    /\ oldCount["main"] = 2

\* C17 (Spec): quiescence at the start of every pass.  When main is about to
\* store 0 in X or in Y, in the first pass too, the three semaphores hold 0
\* and each worker is constructing its generator or is in sem_wait on its
\* begin semaphore, with no store of a worker or signal outstanding.
C17_QuiescentAtReset ==
    pc["main"] \in {"reset_X", "reset_Y"} =>
        /\ \A s \in Semas : sema[s] = 0 /\ nSignal[s] = nWaitRet[s]
        /\ \A w \in Workers :
              /\ pc[w] \in {"ctor", "wait_begin"}
              /\ semPc[w] \in {"load", "yield"}
              /\ sb[w] = <<>>

\* main resets X in its first pass while thread1 has not reached its first
\* sem_wait and thread2 spins in it.
C17_Witness ==
    /\ pc["main"] = "reset_X"
    /\ iterations = 1
    /\ pc["thread1"] = "ctor"
    /\ pc["thread2"] = "wait_begin"
    /\ semPc["thread2"] = "yield"

\* Every thread spins in sem_wait on a count of 0 with nothing left in a
\* store buffer: no step other than another round of a spin loop is possible.
AllBlocked ==
    /\ pc["main"] \in {"wait_end1", "wait_end2"}
    /\ sema["endSema"] = 0
    /\ \A w \in Workers : pc[w] = "wait_begin" /\ sema[beginSema(w)] = 0
    /\ \A t \in Threads : sb[t] = <<>>

\* C18 (SpecLive): progress.  The harness never reaches a state in which all
\* three threads wait on a count of 0, and under weak fairness of the three
\* threads and of the store buffers every explored pass completes: on each
\* of the three semaphores every signal posted is eventually consumed, and
\* main reaches the inspection of every pass from 1 to MaxIter.
C18_Progress ==
    /\ [](~AllBlocked)
    /\ \A k \in 1 .. MaxIter :
          <>(pc["main"] = "check_r1" /\ iterations = k)
    /\ \A s \in Semas : (sema[s] > 0) ~> (nSignal[s] = nWaitRet[s])

\* The last explored pass is complete and both workers wait for the next
\* begin signal.
C18_Witness ==
    /\ pc["main"] = "next_pass"
    /\ iterations = 3
    /\ nWaitRet["endSema"] = 6
    /\ \A w \in Workers : pc[w] = "wait_begin" /\ semPc[w] = "yield"

\* C19: after any number of calls of MersenneTwister::integer, the calls of
\* the constructor included, m_index and the indices i, i2 (m_index + 1,
\* wrapped to 0) and j (m_index + MT_IA, wrapped by MT_LEN) of the next call
\* are within 0 .. MT_LEN - 1; every call advances m_index by one modulo
\* MT_LEN and writes exactly one cell of the buffer, the one at the old
\* m_index.
C19_IndexArithmetic ==
    /\ [](\A w \in DOMAIN random :
            /\ Len(random[w].m_buffer) = MT_LEN
            /\ random[w].m_index \in 0 .. MT_LEN - 1
            /\ integer_i(random[w]) \in 0 .. MT_LEN - 1
            /\ integer_i2(random[w]) \in 0 .. MT_LEN - 1
            /\ integer_j(random[w]) \in 0 .. MT_LEN - 1
            /\ integer_i2(random[w]) = (random[w].m_index + 1) % MT_LEN
            /\ integer_j(random[w]) = (random[w].m_index + MT_IA) % MT_LEN)
    /\ [][\A w \in DOMAIN random :
            IF calls'[w] = calls[w]
            THEN random'[w] = random[w]
            ELSE /\ calls'[w] = calls[w] + 1
                 /\ random'[w].m_index = (random[w].m_index + 1) % MT_LEN
                 /\ random'[w].m_buffer[random[w].m_index + 1]
                       = integer_r(random[w])
                 /\ \A k \in 0 .. MT_LEN - 1 :
                       k # random[w].m_index
                       => random'[w].m_buffer[k + 1] = random[w].m_buffer[k + 1]
       ]_vars

\* The constructor's loop has written every cell once and m_index has
\* wrapped to 0; the cell written last differs from the seed.
C19_Witness ==
    \E w \in DOMAIN random :
        /\ calls[w] = MT_LEN
        /\ random[w].m_index = 0
        /\ random[w].m_buffer[MT_LEN] # Word(seed(w))

\* C15: each worker's generator is private.  A draw by one worker changes
\* that worker's generator and leaves the generator and the drawn values of
\* the other worker unchanged; so in every interleaving of the draws the
\* values a worker has drawn, and the state of its generator, are those that
\* the same number of calls yields from the generator its seed constructs;
\* and the values drawn with seed 1 differ from those drawn with seed 2.
C15_GeneratorPrivate ==
    /\ [](\A w \in Workers :
            /\ calls[w] = (MT_LEN * 100) + Len(drawn[w])
            /\ drawn[w] = Values(random0[w], Len(drawn[w]))
            /\ random[w] = Calls(random0[w], Len(drawn[w])))
    /\ [](\A n \in 1 .. MaxDraws :
            (Len(drawn["thread1"]) >= n /\ Len(drawn["thread2"]) >= n)
            => SubSeq(drawn["thread1"], 1, n) # SubSeq(drawn["thread2"], 1, n))
    /\ [][\A w \in Workers :
            calls'[w] # calls[w]
            => /\ random'[w] # random[w]
               /\ Len(drawn'[w]) = Len(drawn[w]) + 1
               /\ random'[other(w)] = random[other(w)]
               /\ drawn'[other(w)] = drawn[other(w)]
               /\ calls'[other(w)] = calls[other(w)]
       ]_vars

\* thread2 has drawn three values and thread1 then two; the first value of
\* each is the one the program's generator returns for its seed
\* (2238608926 for seed 1, 1421810102 for seed 2).
C15_Witness ==
    /\ Len(drawn["thread2"]) = 3
    /\ Len(drawn["thread1"]) = 2
    /\ random["thread2"].m_index = 3
    /\ random["thread1"].m_index = 2
    /\ drawn["thread1"][1] = <<34158, 30238>>
    /\ drawn["thread2"][1] = <<21695, 6582>>

====
